---- MODULE Spec2Model ----
(***************************************************************************)
(* Vibetracker: the optimistic task synchronizer (src/hooks/useTasks.ts    *)
(* and its inlined copy in src/DashboardPage.tsx) over a task store and a  *)
(* change feed.                                                            *)
(*                                                                         *)
(* `tasks` is the React state after every queued updater has been applied  *)
(* (updaters are pure and React applies them in queue order); `tasksRef`   *)
(* is the ref that the useEffect copies from the last committed render.    *)
(* `channel` is the state of the realtime subscription as last reported to *)
(* the subscribe callback, `timers` the number of setInterval timers that  *)
(* have been started and not cleared. `form` is the state of AddTaskForm.  *)
(* Titles and typed texts are sequences of characters. `run` holds the     *)
(* calls of the streak engine (src/lib/streak.ts): the arguments of        *)
(* computeStreak, subtractDays and filterCompleted and what they came back *)
(* with, and, where renders are followed, the streak on display and the    *)
(* instant it was computed at.                                             *)
(***************************************************************************)
EXTENDS Integers, Sequences, FiniteSets, TLC

VARIABLES impl, userId, now, tasks, tasksRef, loading, error,
          ops, store, feed, nextId, calls, last, channel, timers, form, run

vars == <<impl, userId, now, tasks, tasksRef, loading, error,
          ops, store, feed, nextId, calls, last, channel, timers, form, run>>

\* ------------------------------------------------------------------ bounds
MaxTime == 1
MaxCalls == 2
MaxTimers == 2
MaxPending == 2

\* ------------------------------------------------------------------ values
Null == -1
NullText == "null"
Undefined == "undefined"
NoUser == "nouser"
NoError == "noerror"
StoreMessage == "store error"
AddFailedMessage == "Failed to add task"

EditedTitles == {<<"b">>}

TempId(ms) == <<"temp", ms>>
PermId(n) == <<"id", n>>
NoId == <<"none", 0>>
IsTemp(id) == id[1] = "temp"

NoTask == [id |-> NoId]
NoUpdates == [none |-> TRUE]

InitialRow ==
  [id |-> PermId(1), user_id |-> "u1", title |-> <<"a">>, description |-> NullText,
   status |-> "todo", priority |-> "medium", due_date |-> Null,
   completed_at |-> Null, created_at |-> 0]

NewTaskInputs == {[title |-> <<"b">>, priority |-> Undefined, due_date |-> Undefined]}

\* ------------------------------------------------------------ list helpers
Range(s) == {s[i] : i \in DOMAIN s}
IdsOf(s) == {s[i].id : i \in DOMAIN s}
MapSeq(s, F(_)) == [i \in DOMAIN s |-> F(s[i])]
Some(s, id) == \E i \in DOMAIN s : s[i].id = id
Find(s, id) ==
  IF Some(s, id)
  THEN s[CHOOSE i \in DOMAIN s : s[i].id = id /\ \A j \in 1..(i - 1) : s[j].id # id]
  ELSE NoTask
Entries(s, id) == SelectSeq(s, LAMBDA t : t.id = id)
Others(s, id) == SelectSeq(s, LAMBDA t : t.id # id)
Count(s, id) == Len(Entries(s, id))

\* { ...t, ...updates }
Merge(t, updates) ==
  [f \in DOMAIN t |-> IF f \in DOMAIN updates THEN updates[f] ELSE t[f]]

\* newTask.priority ?? "medium", newTask.due_date ?? null
OrDefault(v, d) == IF v = Undefined THEN d ELSE v
DueOrNull(v) == IF v = Undefined THEN Null ELSE v

\* --------------------------------------------------- pure parts of the code
\* addTask: the synthetic task shown while the insert is pending
OptimisticTask(newTask, uid, ms) ==
  [id |-> TempId(ms), user_id |-> uid, title |-> newTask.title,
   description |-> NullText, status |-> "todo",
   priority |-> OrDefault(newTask.priority, "medium"),
   due_date |-> DueOrNull(newTask.due_date),
   completed_at |-> Null, created_at |-> ms]

\* addTask: the row handed to the store's insert
InsertPayload(newTask, uid) ==
  [user_id |-> uid, title |-> newTask.title, description |-> NullText,
   status |-> "todo", priority |-> OrDefault(newTask.priority, "medium"),
   due_date |-> DueOrNull(newTask.due_date), completed_at |-> Null]

\* a toggle that stamps completed_at in both directions
ToggleUpdatesNeverCleared(task, ms) ==
  [status |-> IF task.status = "done" THEN "todo" ELSE "done", completed_at |-> ms]

\* toggleComplete: the update payload derived from the task handed in
ToggleUpdates(task, ms) ==
  IF task.status = "done"
  THEN [status |-> "todo", completed_at |-> Null]
  ELSE [status |-> "done", completed_at |-> ms]

\* TaskItem.commitEdit: the update payload of a title edit
TitleUpdates == {[title |-> x] : x \in EditedTitles}

\* optimistic mutations and their rollbacks / confirmations (setTasks updaters)
ApplyAdd(prev, optimistic) == <<optimistic>> \o prev
RollbackAdd(prev, tempId) == SelectSeq(prev, LAMBDA t : t.id # tempId)
ConfirmAdd(prev, tempId, data) ==
  MapSeq(prev, LAMBDA t : IF t.id = tempId THEN data ELSE t)
\* an update that waits for the store before touching the list
ApplyUpdateDeferred(prev, id, updates) == prev
ApplyUpdate(prev, id, updates) ==
  MapSeq(prev, LAMBDA t : IF t.id = id THEN Merge(t, updates) ELSE t)
\* a rollback that restores the status and forgets completed_at
RollbackUpdateStatusOnly(prev, id, previous) ==
  MapSeq(prev, LAMBDA t : IF t.id = id THEN [t EXCEPT !.status = previous.status] ELSE t)
RollbackUpdate(prev, id, previous) ==
  MapSeq(prev, LAMBDA t : IF t.id = id THEN previous ELSE t)
ApplyDelete(prev, id) == SelectSeq(prev, LAMBDA t : t.id # id)
RollbackDelete(prev, previous) == <<previous>> \o prev

\* the realtime payload handler
\* an insert handler without the duplicate check
AbsorbInsertBlind(prev, newTask) == <<newTask>> \o prev
AbsorbInsert(prev, newTask) ==
  IF Some(prev, newTask.id) THEN prev ELSE <<newTask>> \o prev
\* an update handler that inserts the task when the list does not have it
AbsorbUpsert(prev, updated) ==
  IF Some(prev, updated.id)
  THEN MapSeq(prev, LAMBDA t : IF t.id = updated.id THEN updated ELSE t)
  ELSE <<updated>> \o prev
AbsorbUpdate(prev, updated) ==
  MapSeq(prev, LAMBDA t : IF t.id = updated.id THEN updated ELSE t)
\* a delete handler that drops the entry at the head of the list
AbsorbDeleteHead(prev, deleted) ==
  IF prev = <<>> THEN prev ELSE Tail(prev)
AbsorbDelete(prev, deleted) == SelectSeq(prev, LAMBDA t : t.id # deleted.id)
Absorb(prev, payload) ==
  CASE payload.eventType = "INSERT" -> AbsorbInsert(prev, payload.row)
    [] payload.eventType = "UPDATE" -> AbsorbUpdate(prev, payload.row)
    [] payload.eventType = "DELETE" -> AbsorbDelete(prev, payload.row)
    [] OTHER -> prev

\* ------------------------------------------------------- the streak engine
\* Instants are counted in seconds from 2024-01-01T00:00:00Z; a date string
\* "YYYY-MM-DD" is the triple <<year, month, day>>; an ISO timestamp is its
\* date, its time of day and its offset from UTC (both in seconds), or not
\* well formed.
DayLength == 86400
EpochYear == 2024

IsLeap(y) == (y % 4 = 0 /\ y % 100 # 0) \/ y % 400 = 0
DaysInMonth(y, m) ==
  IF m = 2 THEN (IF IsLeap(y) THEN 29 ELSE 28)
  ELSE IF m \in {4, 6, 9, 11} THEN 30 ELSE 31
DaysInYear(y) == IF IsLeap(y) THEN 366 ELSE 365

RECURSIVE DaysBeforeYear(_)
DaysBeforeYear(y) ==
  IF y = EpochYear THEN 0
  ELSE IF y > EpochYear THEN DaysBeforeYear(y - 1) + DaysInYear(y - 1)
  ELSE DaysBeforeYear(y + 1) - DaysInYear(y)
RECURSIVE DaysBeforeMonth(_, _)
DaysBeforeMonth(y, m) ==
  IF m = 1 THEN 0 ELSE DaysBeforeMonth(y, m - 1) + DaysInMonth(y, m - 1)

\* Date's MakeDay: the day number of a year, a month and a day of the month
\* that may lie outside the month
MakeDay(y, m, d) == DaysBeforeYear(y) + DaysBeforeMonth(y, m) + d - 1

RECURSIVE YearOf(_, _)
YearOf(n, y) ==
  IF n < DaysBeforeYear(y) THEN YearOf(n, y - 1)
  ELSE IF n >= DaysBeforeYear(y + 1) THEN YearOf(n, y + 1)
  ELSE y
RECURSIVE MonthOf(_, _, _)
MonthOf(rest, y, m) ==
  IF rest >= DaysInMonth(y, m) THEN MonthOf(rest - DaysInMonth(y, m), y, m + 1)
  ELSE <<y, m, rest + 1>>
\* the UTC year, month and day of a day number
DateFromDay(n) ==
  LET y == YearOf(n, EpochYear) IN MonthOf(n - DaysBeforeYear(y), y, 1)

Stamp(date, time, offset) ==
  [ok |-> TRUE, date |-> date, time |-> time, offset |-> offset]
NotAStamp == [ok |-> FALSE, date |-> <<0, 0, 0>>, time |-> 0, offset |-> 0]

\* new Date that reads a string that is not a timestamp as the epoch
NewDateCoercing(stamp) ==
  IF stamp.ok
  THEN [valid |-> TRUE,
        time |-> MakeDay(stamp.date[1], stamp.date[2], stamp.date[3]) * DayLength
                 + stamp.time - stamp.offset]
  ELSE [valid |-> TRUE, time |-> MakeDay(1970, 1, 1) * DayLength]

\* new Date(isoString): an invalid Date when the string is not a timestamp
InvalidDate == [valid |-> FALSE, time |-> 0]
NewDate(stamp) ==
  IF stamp.ok
  THEN [valid |-> TRUE,
        time |-> MakeDay(stamp.date[1], stamp.date[2], stamp.date[3]) * DayLength
                 + stamp.time - stamp.offset]
  ELSE InvalidDate

\* toUtcDateStr: date.toISOString().slice(0, 10), of a valid Date
toUtcDateStr(date) ==
  CHOOSE str \in {DateFromDay(day) : day \in {date.time \div DayLength}} : TRUE

\* subtractDays by arithmetic on the fields of the string, every month taken
\* to have 30 days
subtractDaysByFields(dateStr, days) ==
  LET months == (days - dateStr[3] + 30) \div 30
      count == dateStr[1] * 12 + (dateStr[2] - 1) - months
  IN IF days < dateStr[3] THEN <<dateStr[1], dateStr[2], dateStr[3] - days>>
     ELSE <<count \div 12, (count % 12) + 1, dateStr[3] - days + 30 * months>>

\* subtractDays: parse at midnight UTC, setUTCDate(getUTCDate() - days), format
\* (the Date and its fields are values, each computed once)
subtractDays(dateStr, days) ==
  CHOOSE str \in
    {toUtcDateStr([valid |-> TRUE,
                   time |-> MakeDay(fields[1], fields[2], fields[3] - days) * DayLength
                            + (d.time % DayLength)]) :
       d \in {NewDate(Stamp(dateStr, 0, 0))},
       fields \in {toUtcDateStr(NewDate(Stamp(dateStr, 0, 0)))}} : TRUE

\* what a call comes back with: a number, or a RangeError
Returned(n) == [threw |-> FALSE, value |-> n]
Thrown == [threw |-> TRUE, value |-> 0]
NotRun == [threw |-> FALSE, value |-> -1]

\* days on which exactly one task was completed
CompletedDaysOnce(completions) ==
  {toUtcDateStr(NewDate(completions[i].completed_at)) : i \in
     {i \in DOMAIN completions :
        \A j \in DOMAIN completions \ {i} :
          toUtcDateStr(NewDate(completions[j].completed_at))
            # toUtcDateStr(NewDate(completions[i].completed_at))}}
\* computeStreak: the set of UTC date strings of the completions
CompletedDays(completions) ==
  {toUtcDateStr(NewDate(completions[i].completed_at)) : i \in DOMAIN completions}

\* computeStreak: the while loop
RECURSIVE CountBack(_, _, _)
CountBack(completedDays, cursor, streak) ==
  IF cursor \in completedDays
  THEN CountBack(completedDays, subtractDays(cursor, 1), streak + 1)
  ELSE streak

\* a streak that counts its anchor day before looking at the completions
computeStreakFromToday(completions, date) ==
  IF \E i \in DOMAIN completions : ~NewDate(completions[i].completed_at).valid THEN Thrown
  ELSE LET completedDays == CompletedDays(completions)
           today == toUtcDateStr(date)
       IN Returned(CountBack(completedDays, subtractDays(today, 1), 1))

\* a streak anchored on the latest day that has a completion
computeStreakFromLatest(completions, date) ==
  IF Len(completions) = 0 THEN Returned(0)
  ELSE IF \E i \in DOMAIN completions : ~NewDate(completions[i].completed_at).valid THEN Thrown
  ELSE LET completedDays == CompletedDays(completions)
           yesterday == subtractDays(toUtcDateStr(date), 1)
           latest == CHOOSE a \in completedDays :
                       \A b \in completedDays :
                         MakeDay(b[1], b[2], b[3]) <= MakeDay(a[1], a[2], a[3])
       IN IF MakeDay(latest[1], latest[2], latest[3])
               >= MakeDay(yesterday[1], yesterday[2], yesterday[3])
          THEN Returned(CountBack(completedDays, latest, 0))
          ELSE Returned(0)

\* a streak that only says whether its anchor day has a completion
computeStreakAnchorOnly(completions, date) ==
  IF Len(completions) = 0 THEN Returned(0)
  ELSE IF \E i \in DOMAIN completions : ~NewDate(completions[i].completed_at).valid THEN Thrown
  ELSE LET completedDays == CompletedDays(completions)
           today == toUtcDateStr(date)
       IN IF today \in completedDays \/ subtractDays(today, 1) \in completedDays
          THEN Returned(1)
          ELSE Returned(0)

\* a streak that is broken as soon as today has no completion
computeStreakTodayOnly(completions, date) ==
  IF Len(completions) = 0 THEN Returned(0)
  ELSE IF \E i \in DOMAIN completions : ~NewDate(completions[i].completed_at).valid THEN Thrown
  ELSE LET completedDays == CompletedDays(completions)
           today == toUtcDateStr(date)
       IN IF today \in completedDays
          THEN Returned(CountBack(completedDays, today, 0))
          ELSE Returned(0)

\* a streak that counts every day with a completion up to its anchor day,
\* whatever days are missing in between
computeStreakAcrossGaps(completions, date) ==
  IF Len(completions) = 0 THEN Returned(0)
  ELSE IF \E i \in DOMAIN completions : ~NewDate(completions[i].completed_at).valid THEN Thrown
  ELSE LET completedDays == CompletedDays(completions)
           today == toUtcDateStr(date)
           yesterday == subtractDays(today, 1)
           upTo(anchor) ==
             Cardinality({d \in completedDays :
                            MakeDay(d[1], d[2], d[3])
                              <= MakeDay(anchor[1], anchor[2], anchor[3])})
       IN IF today \in completedDays THEN Returned(upTo(today))
          ELSE IF yesterday \in completedDays THEN Returned(upTo(yesterday))
          ELSE Returned(0)

\* a streak that is still alive two days after the last completion
computeStreakTwoDaysGrace(completions, date) ==
  IF Len(completions) = 0 THEN Returned(0)
  ELSE IF \E i \in DOMAIN completions : ~NewDate(completions[i].completed_at).valid THEN Thrown
  ELSE LET completedDays == CompletedDays(completions)
           today == toUtcDateStr(date)
           yesterday == subtractDays(today, 1)
           dayBefore == subtractDays(today, 2)
       IN IF today \in completedDays
          THEN Returned(CountBack(completedDays, today, 0))
          ELSE IF yesterday \in completedDays
          THEN Returned(CountBack(completedDays, yesterday, 0))
          ELSE Returned(CountBack(completedDays, dayBefore, 0))

\* a streak that starts afresh on a day that has a completion
computeStreakAfresh(completions, date) ==
  IF Len(completions) = 0 THEN Returned(0)
  ELSE IF \E i \in DOMAIN completions : ~NewDate(completions[i].completed_at).valid THEN Thrown
  ELSE LET completedDays == CompletedDays(completions)
           today == toUtcDateStr(date)
           yesterday == subtractDays(today, 1)
       IN IF today \in completedDays THEN Returned(1)
          ELSE IF yesterday \in completedDays
          THEN Returned(CountBack(completedDays, yesterday, 0))
          ELSE Returned(0)

\* a streak that counts the completions of its run of days, not the days
computeStreakOfCompletions(completions, date) ==
  IF Len(completions) = 0 THEN Returned(0)
  ELSE IF \E i \in DOMAIN completions : ~NewDate(completions[i].completed_at).valid THEN Thrown
  ELSE LET completedDays == CompletedDays(completions)
           today == toUtcDateStr(date)
           yesterday == subtractDays(today, 1)
           anchor == IF today \in completedDays THEN today ELSE yesterday
           length == CountBack(completedDays, anchor, 0)
           first == MakeDay(anchor[1], anchor[2], anchor[3]) - length
       IN Returned(Cardinality(
            {i \in DOMAIN completions :
               LET d == NewDate(completions[i].completed_at).time \div DayLength
               IN d > first /\ d <= first + length}))

\* computeStreak(tasks, now); toISOString throws on an invalid Date
computeStreak(completions, date) ==
  IF Len(completions) = 0 THEN Returned(0)
  ELSE IF \E i \in DOMAIN completions : ~NewDate(completions[i].completed_at).valid THEN Thrown
  ELSE LET completedDays == CompletedDays(completions)
           today == toUtcDateStr(date)
           yesterday == subtractDays(today, 1)
       IN IF today \in completedDays
          THEN Returned(CountBack(completedDays, today, 0))
          ELSE IF yesterday \in completedDays
          THEN Returned(CountBack(completedDays, yesterday, 0))
          ELSE Returned(0)

\* a filter that keeps every task whose status is done
filterCompletedByStatus(list) ==
  LET kept == SelectSeq(list, LAMBDA t : t.status = "done")
  IN [i \in DOMAIN kept |-> [completed_at |-> kept[i].completed_at]]

\* a filter that keeps every task with a completion timestamp, done or not
filterCompletedByTimestamp(list) ==
  LET kept == SelectSeq(list, LAMBDA t : t.completed_at # Null)
  IN [i \in DOMAIN kept |-> [completed_at |-> kept[i].completed_at]]

\* filterCompleted: the done tasks that have a completion timestamp, each
\* reduced to that timestamp
filterCompleted(list) ==
  LET kept == SelectSeq(list, LAMBDA t : t.status = "done" /\ t.completed_at # Null)
  IN [i \in DOMAIN kept |-> [completed_at |-> kept[i].completed_at]]

\* no call of computeStreak, of subtractDays or of filterCompleted has been
\* made; where a call of computeStreak is followed statement by statement,
\* `at` is where it stands (not called, entered, in the while loop, or back),
\* `completedDays`, `anchor`, `cursor` and `streak` are its locals and `tests`
\* the number of times the loop condition has been evaluated
NoKey == <<0, 0, 0>>
NoRun == [tasks |-> <<>>, now |-> InvalidDate, result |-> NotRun,
          before |-> <<>>, was |-> NotRun,
          key |-> NoKey, back |-> 0, moved |-> NoKey,
          filterRan |-> FALSE, filtered |-> <<>>,
          at |-> "out", completedDays |-> {}, anchor |-> NoKey, cursor |-> NoKey,
          streak |-> 0, tests |-> 0]

\* --------------------------------------------------------- bookkeeping
NoOp == [kind |-> "none"]
NoForm == [submitting |-> FALSE, validationError |-> "", title |-> <<>>]
NoEvent == [eventType |-> "none"]

\* a store call in flight; `was`, `errorAtCall`, `quietList`, `quietTask` are
\* history: the task's entry in the list and the error signal at the call, and
\* whether any other step has changed the list / the entries with this
\* operation's id since the call
NewOp(kind, id, payload, previous) ==
  [kind |-> kind, id |-> id, payload |-> payload, previous |-> previous,
   toggled |-> NoTask,
   phase |-> "sent", result |-> "none", data |-> NoTask, rows |-> <<>>,
   was |-> Find(tasks, id), errorAtCall |-> error,
   quietList |-> TRUE, quietTask |-> TRUE]

Touched(o, newTasks) ==
  [o EXCEPT !.quietList = @ /\ newTasks = tasks,
            !.quietTask = @ /\ Entries(newTasks, o.id) = Entries(tasks, o.id)]
TouchAll(os, newTasks) == [i \in DOMAIN os |-> Touched(os[i], newTasks)]
RemoveAt(s, i) == SubSeq(s, 1, i - 1) \o SubSeq(s, i + 1, Len(s))

\* history of the step just taken, kept for continuations ("settle") and
\* absorbed events ("feed"): the operation or event it was about, and whether
\* it absorbed the same event as the step before
Quiet == [act |-> "other", op |-> [kind |-> "none"], ev |-> [eventType |-> "none"],
          tasks |-> <<>>, repeat |-> FALSE]
Step(act, op, ev) ==
  [act |-> act, op |-> op, ev |-> ev, tasks |-> tasks,
   repeat |-> act = "feed" /\ last.act = "feed" /\ last.ev = ev]

\* ------------------------------------------------------------------ Init
Init ==
  /\ impl \in {"hook", "dashboard"}
  /\ userId = NoUser
  /\ now = 0
  /\ tasks = <<>>
  /\ tasksRef = <<>>
  /\ loading = TRUE
  /\ error = NoError
  /\ ops = <<>>
  /\ store = <<InitialRow>>
  /\ feed = {}
  /\ nextId = 2
  /\ calls = 0
  /\ last = Quiet
  /\ channel = "none"
  /\ timers = 0
  /\ form = NoForm
  /\ run = NoRun

\* --------------------------------------------------------------- actions
\* the clock behind Date.now() and new Date()
Tick ==
  /\ now < MaxTime
  /\ now' = now + 1
  /\ last' = Quiet
  /\ UNCHANGED <<run, form, channel, timers, impl, userId, tasks, tasksRef, loading, error, ops, store,
                 feed, nextId, calls>>

\* useEffect(() => { tasksRef.current = tasks }, [tasks])
SyncRef ==
  /\ tasksRef # tasks
  /\ tasksRef' = tasks
  /\ last' = Quiet
  /\ UNCHANGED <<run, form, channel, timers, impl, userId, now, tasks, loading, error, ops, store, feed,
                 nextId, calls>>

\* the first part of fetchTasks, up to the await
IssueFetch ==
  /\ error' = NoError
  /\ loading' = IF impl = "hook" THEN TRUE ELSE loading
  /\ ops' = Append(ops, NewOp("fetch", NoId, NoUpdates, NoTask))
  /\ last' = Quiet

\* the session's user becomes known; the [fetchTasks] effect then runs,
\* and the realtime effect creates the channel and subscribes
SignIn ==
  /\ userId = NoUser
  /\ userId' = "u1"
  /\ IssueFetch
  /\ channel' = "joining"
  /\ UNCHANGED <<run, form, timers, impl, now, tasks, tasksRef, store, feed, nextId, calls>>

\* fetchTasks run again: by the [fetchTasks] effect of a hook mounted without
\* a user, or by a poll timer
FetchCall ==
  /\ calls < MaxCalls
  /\ calls' = calls + 1
  /\ userId # NoUser => timers > 0
  /\ IF userId = NoUser
     THEN /\ impl = "hook"
          /\ tasks' = <<>>
          /\ loading' = FALSE
          /\ ops' = TouchAll(ops, <<>>)
          /\ last' = Quiet
          /\ UNCHANGED error
     ELSE /\ IssueFetch
          /\ UNCHANGED tasks
  /\ UNCHANGED <<run, form, channel, timers, impl, userId, now, tasksRef, store, feed, nextId>>

\* addTask(newTask), whoever calls it
DoAdd(newTask) ==
  /\ userId # NoUser
  /\ calls < MaxCalls
  /\ calls' = calls + 1
  /\ LET optimistic == OptimisticTask(newTask, userId, now)
         op == NewOp("add", optimistic.id, InsertPayload(newTask, userId), NoTask)
     IN /\ tasks' = ApplyAdd(tasks, optimistic)
        /\ ops' = Append(TouchAll(ops, tasks'), op)
        /\ last' = Quiet
  /\ UNCHANGED <<run, channel, timers, impl, userId, now, tasksRef, loading, error, store, feed,
                 nextId>>

\* an updateTask that computes the new list from the snapshot in the ref
DoUpdateFromSnapshot(toggled, id, updates) ==
  /\ calls < MaxCalls
  /\ Some(tasksRef, id)
  /\ calls' = calls + 1
  /\ LET previous == Find(tasksRef, id)
         op == [NewOp("update", id, updates, previous) EXCEPT !.toggled = toggled]
     IN /\ tasks' = ApplyUpdate(tasksRef, id, updates)
        /\ ops' = Append(TouchAll(ops, tasks'), op)
        /\ last' = Quiet
  /\ UNCHANGED <<run, form, channel, timers, impl, userId, now, tasksRef, loading,
                 error, store, feed, nextId>>

\* updateTask(id, updates); toggled is the task toggleComplete was handed
\* (NoTask for a direct call), kept as history
DoUpdate(toggled, id, updates) ==
  /\ calls < MaxCalls
  /\ Some(tasksRef, id)
  /\ calls' = calls + 1
  /\ LET previous == Find(tasksRef, id)
         op == [NewOp("update", id, updates, previous) EXCEPT !.toggled = toggled]
     IN /\ tasks' = ApplyUpdate(tasks, id, updates)
        /\ ops' = Append(TouchAll(ops, tasks'), op)
        /\ last' = Quiet
  /\ UNCHANGED <<run, form, channel, timers, impl, userId, now, tasksRef, loading, error, store, feed,
                 nextId>>

AddCall(newTask) == DoAdd(newTask) /\ UNCHANGED form

UpdateCall(id, updates) == DoUpdate(NoTask, id, updates)

ToggleCall(task) == DoUpdate(task, task.id, ToggleUpdates(task, now))

DeleteCall(id) ==
  /\ calls < MaxCalls
  /\ impl = "hook" => Some(tasksRef, id)
  /\ calls' = calls + 1
  /\ LET previous == Find(tasksRef, id)
         op == NewOp("delete", id, NoUpdates, previous)
     IN /\ tasks' = ApplyDelete(tasks, id)
        /\ ops' = Append(TouchAll(ops, tasks'), op)
        /\ last' = Quiet
  /\ UNCHANGED <<run, form, channel, timers, impl, userId, now, tasksRef, loading, error, store, feed,
                 nextId>>

\* ------------------------------------------------------------- the store
Event(type, row) == [eventType |-> type, row |-> row]

\* insert(...).select().single(): id and created_at are column defaults
StoredRow(payload, n, ms) ==
  [id |-> PermId(n), user_id |-> payload.user_id, title |-> payload.title,
   description |-> payload.description, status |-> payload.status,
   priority |-> payload.priority, due_date |-> payload.due_date,
   completed_at |-> payload.completed_at, created_at |-> ms]

\* update(updates).eq("id", id) and delete().eq("id", id) on the table
UpdateRows(rows, id, updates) ==
  MapSeq(rows, LAMBDA r : IF r.id = id THEN Merge(r, updates) ELSE r)
DeleteRows(rows, id) == SelectSeq(rows, LAMBDA r : r.id # id)

\* what the store can answer: a write addressed by a temporary id is rejected
\* (the id column is a UUID)
Results(o) ==
  CASE o.kind = "add" -> {"ok", "error", "nodata"}
    [] o.kind \in {"update", "delete"} ->
         IF IsTemp(o.id) THEN {"error"} ELSE {"ok", "error"}
    [] OTHER -> {"ok", "error"}

Answered(o, result, data, rows) ==
  [o EXCEPT !.phase = "answered", !.result = result, !.data = data, !.rows = rows]

\* the store serves one call: it applies the write (or not) and answers
StoreAnswer(i, result) ==
  /\ ops[i].phase = "sent"
  /\ result \in Results(ops[i])
  /\ LET o == ops[i]
         row == StoredRow(o.payload, nextId, now)
     IN CASE o.kind = "add" /\ result = "ok" ->
               /\ store' = <<row>> \o store
               /\ feed' = feed \cup {Event("INSERT", row)}
               /\ nextId' = nextId + 1
               /\ ops' = [ops EXCEPT ![i] = Answered(o, result, row, <<>>)]
          [] o.kind = "update" /\ result = "ok" ->
               /\ store' = UpdateRows(store, o.id, o.payload)
               /\ feed' = IF Some(store, o.id)
                          THEN feed \cup {Event("UPDATE", Find(store', o.id))}
                          ELSE feed
               /\ ops' = [ops EXCEPT ![i] = Answered(o, result, NoTask, <<>>)]
               /\ UNCHANGED nextId
          [] o.kind = "delete" /\ result = "ok" ->
               /\ store' = DeleteRows(store, o.id)
               /\ feed' = IF Some(store, o.id)
                          THEN feed \cup {Event("DELETE", Find(store, o.id))}
                          ELSE feed
               /\ ops' = [ops EXCEPT ![i] = Answered(o, result, NoTask, <<>>)]
               /\ UNCHANGED nextId
          [] o.kind = "fetch" /\ result = "ok" ->
               /\ ops' = [ops EXCEPT ![i] = Answered(o, result, NoTask, store)]
               /\ UNCHANGED <<store, feed, nextId>>
          [] OTHER ->
               /\ ops' = [ops EXCEPT ![i] = Answered(o, result, NoTask, <<>>)]
               /\ UNCHANGED <<store, feed, nextId>>
  /\ last' = Quiet
  /\ UNCHANGED <<run, form, channel, timers, impl, userId, now, tasks, tasksRef, loading, error, calls>>

\* another session of the same user writes to the store
RemoteWrite ==
  /\ calls < MaxCalls
  /\ calls' = calls + 1
  /\ \/ \E nt \in NewTaskInputs :
          LET row == StoredRow(InsertPayload(nt, "u1"), nextId, now)
          IN /\ store' = <<row>> \o store
             /\ feed' = feed \cup {Event("INSERT", row)}
             /\ nextId' = nextId + 1
     \/ \E r \in Range(store) : \E u \in TitleUpdates \cup {ToggleUpdates(r, now)} :
          /\ store' = UpdateRows(store, r.id, u)
          /\ feed' = feed \cup {Event("UPDATE", Find(store', r.id))}
          /\ UNCHANGED nextId
     \/ \E r \in Range(store) :
          /\ store' = DeleteRows(store, r.id)
          /\ feed' = feed \cup {Event("DELETE", r)}
          /\ UNCHANGED nextId
  /\ last' = Quiet
  /\ UNCHANGED <<run, form, channel, timers, impl, userId, now, tasks, tasksRef, loading, error, ops>>

\* ------------------------------------------- continuations after the await
Failed(o) == o.result # "ok"

ErrorMessage(o) ==
  IF o.result = "error" THEN StoreMessage ELSE AddFailedMessage

SettledTasks(o) ==
  CASE o.kind = "add" ->
         IF Failed(o) THEN RollbackAdd(tasks, o.id)
         ELSE ConfirmAdd(tasks, o.id, o.data)
    [] o.kind = "update" ->
         IF Failed(o) THEN RollbackUpdate(tasks, o.id, o.previous) ELSE tasks
    [] o.kind = "delete" ->
         IF Failed(o) /\ o.previous # NoTask
         THEN RollbackDelete(tasks, o.previous) ELSE tasks
    [] OTHER -> IF Failed(o) THEN tasks ELSE o.rows

SettledError(o) ==
  CASE o.kind = "fetch" -> IF Failed(o) THEN ErrorMessage(o) ELSE error
    [] OTHER -> IF Failed(o) /\ impl = "hook" THEN ErrorMessage(o) ELSE error

SettledLoading(o) ==
  IF o.kind = "fetch" /\ (impl = "hook" \/ ~Failed(o)) THEN FALSE ELSE loading

\* AddTaskForm.handleSubmit after `await onAdd(...)`: addTask has returned,
\* having thrown nothing, so the fields are cleared and submitting is reset
SettledForm(o) ==
  IF o.kind = "add" THEN [form EXCEPT !.submitting = FALSE, !.title = <<>>] ELSE form

Settle(i) ==
  /\ ops[i].phase = "answered"
  /\ tasks' = SettledTasks(ops[i])
  /\ error' = SettledError(ops[i])
  /\ loading' = SettledLoading(ops[i])
  /\ ops' = TouchAll(RemoveAt(ops, i), tasks')
  /\ form' = SettledForm(ops[i])
  /\ last' = Quiet
  /\ UNCHANGED <<run, channel, timers, impl, userId, now, tasksRef, store, feed, nextId, calls>>

\* the subscribe callback is told the state of the channel: joined, or
\* failed (the client then rejoins on its own and reports again); on
\* CHANNEL_ERROR it starts a poll timer, whose clearInterval closure it hands
\* back to the client, which does not call it
TimersAfterIgnored(status, n) == n
TimersAfter(status, n) == IF status = "CHANNEL_ERROR" THEN n + 1 ELSE n

ChannelStatus(status) ==
  /\ channel \in {"joining", "joined", "errored"}
  /\ status = "CHANNEL_ERROR" => timers < MaxTimers
  /\ channel' = IF status = "SUBSCRIBED" THEN "joined" ELSE "errored"
  /\ timers' = TimersAfter(status, timers)
  /\ last' = Quiet
  /\ UNCHANGED <<run, form, impl, userId, now, tasks, tasksRef, loading, error, ops,
                 store, feed, nextId, calls>>

\* the channel delivers an event (at least once, in any order)
FeedAbsorb(payload) ==
  /\ channel = "joined"
  /\ tasks' = Absorb(tasks, payload)
  /\ ops' = TouchAll(ops, tasks')
  /\ last' = Quiet
  /\ UNCHANGED <<run, form, channel, timers, impl, userId, now, tasksRef, loading, error, store, feed,
                 nextId, calls>>

\* ------------------------------------------------------------------ Next
Next ==
  \/ Tick
  \/ SyncRef
  \/ SignIn
  \/ FetchCall
  \/ \E nt \in NewTaskInputs : AddCall(nt)
  \/ \E id \in IdsOf(tasksRef) : \E u \in TitleUpdates : UpdateCall(id, u)
  \/ \E t \in Range(tasksRef) : ToggleCall(t)
  \/ \E id \in IdsOf(tasksRef) : DeleteCall(id)
  \/ \E i \in DOMAIN ops : \E r \in {"ok", "error", "nodata"} : StoreAnswer(i, r)
  \/ \E i \in DOMAIN ops : Settle(i)
  \/ \E ev \in feed : FeedAbsorb(ev)
  \/ RemoteWrite
  \/ \E status \in {"SUBSCRIBED", "CHANNEL_ERROR"} : ChannelStatus(status)

Spec == Init /\ [][Next]_vars

\* the same program when nothing but this session's own calls happens: no
\* other session, no change feed, no refresh after the first
NextCrud ==
  \/ Tick
  \/ SyncRef
  \/ SignIn
  \/ \E nt \in NewTaskInputs : AddCall(nt)
  \/ \E id \in IdsOf(tasksRef) : \E u \in TitleUpdates : UpdateCall(id, u)
  \/ \E t \in Range(tasksRef) : ToggleCall(t)
  \/ \E id \in IdsOf(tasksRef) : DeleteCall(id)
  \/ \E i \in DOMAIN ops : \E r \in {"ok", "error", "nodata"} : StoreAnswer(i, r)
  \/ \E i \in DOMAIN ops : Settle(i)

SpecCrud == Init /\ [][NextCrud]_vars

\* the same, with the scheduling the runtime guarantees: once a store call has
\* resolved its continuation runs, and the ref effect runs after a commit.
\* Nothing makes the store answer.
SpecCrudFair ==
  /\ Init /\ [][NextCrud]_vars
  /\ WF_vars(\E i \in DOMAIN ops : Settle(i))
  /\ WF_vars(SyncRef)

TypeOK ==
  /\ impl \in {"hook", "dashboard"}
  /\ now \in 0..MaxTime
  /\ calls \in 0..MaxCalls
  /\ timers \in 0..MaxTimers
  /\ channel \in {"none", "joining", "joined", "errored", "removed"}

\* ------------------------------------------------ the form and the items
TitleLimit == 280
InputMaxLength == 280
RequiredMessage == "Task title is required."
TooLongMessage == "Title must be 280 characters or fewer."

Long(n) == [i \in 1..n |-> "x"]

\* what a user types or pastes into a title input
FormTexts == {<<>>, <<" ", "b", " ">>, Long(InputMaxLength + 1)}

\* <input maxLength={280}>: the browser keeps the first 280 characters
InputValue(text) ==
  IF Len(text) > InputMaxLength THEN SubSeq(text, 1, InputMaxLength) ELSE text

\* String.prototype.trim
IsSpace(c) == c = " "
RECURSIVE TrimStart(_)
TrimStart(text) ==
  IF text # <<>> /\ IsSpace(Head(text)) THEN TrimStart(Tail(text)) ELSE text
RECURSIVE TrimEnd(_)
TrimEnd(text) ==
  IF text # <<>> /\ IsSpace(text[Len(text)])
  THEN TrimEnd(SubSeq(text, 1, Len(text) - 1)) ELSE text
Trim(text) == TrimEnd(TrimStart(text))

\* a form that submits whatever was typed
ValidateNothing(trimmed) == ""
\* AddTaskForm.handleSubmit: the validation error of a trimmed title, "" if none
Validate(trimmed) ==
  IF trimmed = <<>> THEN RequiredMessage
  ELSE IF Len(trimmed) > TitleLimit THEN TooLongMessage
  ELSE ""

syncVars == <<impl, userId, now, tasks, tasksRef, loading, error, ops, store,
              feed, nextId, calls, last, channel, timers>>
formVars == <<syncVars, run>>

\* AddTaskForm.handleSubmit up to the await; the dashboard disables the form
\* without a user and while loading. A hook without a user returns at once,
\* and the form resets. The date field is left empty: `dueDate || null` is
\* null, which `??` in addTask treats as it treats undefined.
SubmitAdd(text) ==
  /\ ~form.submitting
  /\ impl = "dashboard" => (userId # NoUser /\ ~loading)
  /\ LET trimmed == Trim(InputValue(text))
     IN IF Validate(trimmed) # ""
        THEN /\ form' = [form EXCEPT !.validationError = Validate(trimmed),
                                     !.title = InputValue(text)]
             /\ UNCHANGED formVars
        ELSE IF userId = NoUser
        THEN /\ form' = NoForm
             /\ UNCHANGED formVars
        ELSE /\ form' = [submitting |-> TRUE, validationError |-> "",
                         title |-> InputValue(text)]
             /\ DoAdd([title |-> trimmed, priority |-> "medium",
                       due_date |-> Undefined])

\* TaskItem: a control that is disabled while its call is pending
DisabledWhileBusy(busy, task) == busy
\* TaskItem: disabled={toggling || isTemp}, disabled={deleting || isTemp}
Disabled(busy, task) == busy \/ IsTemp(task.id)
\* TaskItem: disabled={isDone || isTemp} of the title button
EditDisabled(task) == task.status = "done" \/ IsTemp(task.id)

Toggling(task) ==
  \E i \in DOMAIN ops : ops[i].id = task.id /\ ops[i].toggled # NoTask
Deleting(task) ==
  \E i \in DOMAIN ops : ops[i].id = task.id /\ ops[i].kind = "delete"

\* TaskItem.startEdit, typing, then commitEdit on a rendered task
CommitEdit(task, text) ==
  /\ ~EditDisabled(task)
  /\ LET trimmed == Trim(InputValue(text))
     IN IF trimmed = <<>> \/ trimmed = task.title
        THEN UNCHANGED vars
        ELSE UpdateCall(task.id, [title |-> trimmed])

HandleToggle(task) ==
  /\ ~Disabled(Toggling(task), task)
  /\ ToggleCall(task)

HandleDelete(task) ==
  /\ ~Disabled(Deleting(task), task)
  /\ DeleteCall(task.id)

\* the program as its user drives it: every call comes from the form or from
\* an item of the rendered list (the clock is left where it is)
NextUi ==
  \/ SyncRef
  \/ SignIn
  \/ \E text \in FormTexts : SubmitAdd(text)
  \/ \E task \in Range(tasksRef) : \E text \in FormTexts : CommitEdit(task, text)
  \/ \E task \in Range(tasksRef) : HandleToggle(task)
  \/ \E task \in Range(tasksRef) : HandleDelete(task)
  \/ \E i \in DOMAIN ops : \E r \in {"ok", "error", "nodata"} : StoreAnswer(i, r)
  \/ \E i \in DOMAIN ops : Settle(i)

SpecUi == Init /\ [][NextUi]_vars

\* --------------------------------------- the subscription and its fallback
\* a poll timer fires: fetchTasks up to the await. Requests beyond MaxPending
\* in flight are requests the store never answers. After the unmount the
\* timer still fires, and what fetchTasks sets is dropped.
PollTick ==
  /\ timers > 0
  /\ IF channel = "removed"
     THEN UNCHANGED <<loading, error, ops>>
     ELSE /\ error' = NoError
          /\ loading' = IF impl = "hook" THEN TRUE ELSE loading
          /\ ops' = IF Len(ops) < MaxPending
                    THEN Append(ops, NewOp("fetch", NoId, NoUpdates, NoTask))
                    ELSE ops
  /\ last' = Step("poll", NoOp, NoEvent)
  /\ UNCHANGED <<run, form, impl, userId, now, tasks, tasksRef, store, feed, nextId,
                 calls, channel, timers>>

\* the component unmounts: the realtime effect's cleanup removes the channel;
\* continuations still pending only set state of the unmounted component
Unmount ==
  /\ channel \in {"joining", "joined", "errored"}
  /\ channel' = "removed"
  /\ ops' = <<>>
  /\ last' = Quiet
  /\ UNCHANGED <<run, form, impl, userId, now, tasks, tasksRef, loading, error, store,
                 feed, nextId, calls, timers>>

NextChannel ==
  \/ SignIn
  \/ \E status \in {"SUBSCRIBED", "CHANNEL_ERROR"} : ChannelStatus(status)
  \/ PollTick
  \/ \E i \in DOMAIN ops : \E r \in {"ok", "error"} : StoreAnswer(i, r)
  \/ \E i \in DOMAIN ops : Settle(i)
  \/ Unmount

\* a live setInterval timer fires again and again
SpecChannel == Init /\ [][NextChannel]_vars /\ WF_vars(PollTick)

\* ------------------------------------------ the payload handler on its own
\* lists and events the handler is applied to: entries of up to two ids, a
\* second version of the first, and a temporary entry; ids may repeat
MaxLen == 2

SampleRows ==
  {InitialRow, [InitialRow EXCEPT !.title = <<"b">>],
   [InitialRow EXCEPT !.id = PermId(2)],
   OptimisticTask([title |-> <<"b">>, priority |-> Undefined, due_date |-> Undefined],
                  "u1", 0)}

SampleLists == UNION {[1..n -> SampleRows] : n \in 0..MaxLen}

SampleEvents ==
  {Event(type, row) : type \in {"INSERT", "UPDATE", "DELETE"}, row \in SampleRows}

InitAbsorb ==
  /\ impl \in {"hook", "dashboard"}
  /\ userId = "u1"
  /\ now = 0
  /\ tasks \in SampleLists
  /\ tasksRef = tasks
  /\ loading = FALSE
  /\ error = NoError
  /\ ops = <<>>
  /\ store = <<>>
  /\ feed = SampleEvents
  /\ nextId = 3
  /\ calls = 0
  /\ last = Quiet
  /\ channel = "joined"
  /\ timers = 0
  /\ form = NoForm
  /\ run = NoRun

\* one delivery of an event, with the history of the delivery kept
Deliver(payload) ==
  /\ userId # NoUser
  /\ tasks' = Absorb(tasks, payload)
  /\ ops' = TouchAll(ops, tasks')
  /\ last' = Step("feed", NoOp, payload)
  /\ UNCHANGED <<run, form, channel, timers, impl, userId, now, tasksRef, loading, error, store, feed,
                 nextId, calls>>

NextAbsorb == \E ev \in feed : Deliver(ev)

SpecAbsorb == InitAbsorb /\ [][NextAbsorb]_vars

\* ------------------------------------------ computeStreak on its own
\* the inputs computeStreak is run on: completions around the end of a
\* February and the end of a year, at several times of the day, one of them
\* written with an offset that puts it on the UTC day before
Hour == 3600
StampSamples ==
  {Stamp(d, 10 * Hour, 0) :
     d \in {<<2024, 2, 28>>, <<2024, 2, 29>>, <<2024, 3, 1>>, <<2024, 3, 2>>,
            <<2024, 12, 31>>, <<2025, 1, 1>>}}
  \cup {Stamp(<<2024, 2, 29>>, DayLength - 1, 0), Stamp(<<2024, 3, 1>>, 0, 0),
        Stamp(<<2024, 3, 1>>, Hour, 2 * Hour), NotAStamp}
NowSamples ==
  {NewDate(s) : s \in {Stamp(<<2024, 3, 1>>, 12 * Hour, 0), Stamp(<<2024, 3, 1>>, 0, 0),
                       Stamp(<<2024, 3, 2>>, DayLength - 1, 0),
                       Stamp(<<2025, 1, 1>>, 12 * Hour, 0)}}
Completion(stamp) == [completed_at |-> stamp]
CompletionLists ==
  UNION {[1..n -> {Completion(s) : s \in StampSamples}] : n \in 0..MaxLen}

\* and longer collections: for each choice of days among the MaxRun days that
\* end on 2024-03-02 (a leap day and a month's end among them) or on
\* 2025-01-01 (a year's end among them), one completion at 10:00Z on each
MaxRun == 7
WindowEnds == {MakeDay(2024, 3, 2), MakeDay(2025, 1, 1)}
RECURSIVE OnDays(_)
OnDays(days) ==
  IF days = {} THEN <<>>
  ELSE LET d == CHOOSE x \in days : \A y \in days : y <= x
       IN Append(OnDays(days \ {d}), Completion(Stamp(DateFromDay(d), 10 * Hour, 0)))
WindowLists ==
  {OnDays(days) : days \in UNION {SUBSET ((e - MaxRun + 1)..e) : e \in WindowEnds}}

InitStreak ==
  /\ impl = "hook"
  /\ userId = NoUser
  /\ now = 0
  /\ tasks = <<>>
  /\ tasksRef = <<>>
  /\ loading = TRUE
  /\ error = NoError
  /\ ops = <<>>
  /\ store = <<InitialRow>>
  /\ feed = {}
  /\ nextId = 2
  /\ calls = 0
  /\ last = Quiet
  /\ channel = "none"
  /\ timers = 0
  /\ form = NoForm
  /\ \E c \in CompletionLists \cup WindowLists : \E n \in NowSamples :
       run = [NoRun EXCEPT !.tasks = c, !.now = n]

\* computeStreak is called on the collection
RunStreak ==
  /\ run.result = NotRun
  /\ run' = [run EXCEPT !.result = computeStreak(run.tasks, run.now)]
  /\ UNCHANGED <<form, syncVars>>

\* one more completion joins the collection and computeStreak is called
\* again; the collection and the result of the call before are kept
Complete(stamp) ==
  /\ run.result # NotRun
  /\ Len(run.tasks) < MaxLen \/ run.was = NotRun
  /\ LET more == Append(run.tasks, Completion(stamp))
     IN run' = [run EXCEPT !.tasks = more,
                           !.result = computeStreak(more, run.now),
                           !.before = run.tasks, !.was = run.result]
  /\ UNCHANGED <<form, syncVars>>

NextStreak ==
  \/ RunStreak
  \/ \E stamp \in StampSamples : Complete(stamp)

SpecStreak == InitStreak /\ [][NextStreak]_vars

\* ------------------------------- computeStreak, statement by statement
\* computeStreak is called on a collection, with a now
CallStreak(completions, date) ==
  /\ run.at = "out"
  /\ run.result = NotRun
  /\ run' = [run EXCEPT !.tasks = completions, !.now = date, !.at = "in"]
  /\ UNCHANGED <<form, syncVars>>

\* the call up to the while loop: the early return on an empty collection,
\* the set of completed days (a RangeError on an unparseable completed_at)
\* and the choice of the anchor
EnterStreak ==
  /\ run.at = "in"
  /\ \/ /\ Len(run.tasks) = 0
        /\ run' = [run EXCEPT !.at = "back", !.result = Returned(0)]
     \/ /\ Len(run.tasks) # 0
        /\ \E i \in DOMAIN run.tasks : ~NewDate(run.tasks[i].completed_at).valid
        /\ run' = [run EXCEPT !.at = "back", !.result = Thrown]
     \/ /\ Len(run.tasks) # 0
        /\ \A i \in DOMAIN run.tasks : NewDate(run.tasks[i].completed_at).valid
        /\ \E completedDays \in {CompletedDays(run.tasks)} :
           \E today \in {toUtcDateStr(run.now)} :
           \E yesterday \in {subtractDays(today, 1)} :
             run' = IF today \in completedDays
                    THEN [run EXCEPT !.at = "loop", !.completedDays = completedDays,
                                     !.anchor = today, !.cursor = today]
                    ELSE IF yesterday \in completedDays
                    THEN [run EXCEPT !.at = "loop", !.completedDays = completedDays,
                                     !.anchor = yesterday, !.cursor = yesterday]
                    ELSE [run EXCEPT !.at = "back", !.completedDays = completedDays,
                                     !.result = Returned(0)]
  /\ UNCHANGED <<form, syncVars>>

\* a walk that goes on past a day without a completion while an earlier day
\* has one
LoopTestToEarliest ==
  /\ run.at = "loop"
  /\ LET here == MakeDay(run.cursor[1], run.cursor[2], run.cursor[3])
     IN run' =
          IF \E d \in run.completedDays : MakeDay(d[1], d[2], d[3]) <= here
          THEN [run EXCEPT !.tests = @ + 1,
                           !.streak = IF run.cursor \in run.completedDays THEN @ + 1 ELSE @,
                           !.cursor = subtractDays(run.cursor, 1)]
          ELSE [run EXCEPT !.tests = @ + 1, !.at = "back",
                           !.result = Returned(run.streak)]
  /\ UNCHANGED <<form, syncVars>>

\* one evaluation of the loop condition, with the loop body when it holds and
\* the return when it does not
LoopTest ==
  /\ run.at = "loop"
  /\ run' =
       IF run.cursor \in run.completedDays
       THEN [run EXCEPT !.tests = @ + 1, !.streak = @ + 1,
                        !.cursor = subtractDays(run.cursor, 1)]
       ELSE [run EXCEPT !.tests = @ + 1, !.at = "back",
                        !.result = Returned(run.streak)]
  /\ UNCHANGED <<form, syncVars>>

NextWalk ==
  \/ \E c \in CompletionLists \cup WindowLists : \E n \in NowSamples : CallStreak(c, n)
  \/ EnterStreak
  \/ LoopTest

\* the call is synchronous: once made it runs until it returns or throws
SpecWalk == Init /\ [][NextWalk]_vars /\ WF_vars(EnterStreak \/ LoopTest)

\* ------------------------------------------------ the list and the store
\* The channel delivers an event and is done with it: each event is absorbed
\* once, in any order. Writes, the user's and other sessions', are made
\* while the subscription is up, so that each of their events is delivered.
FeedTake(payload) ==
  /\ channel = "joined"
  /\ tasks' = Absorb(tasks, payload)
  /\ ops' = TouchAll(ops, tasks')
  /\ feed' = feed \ {payload}
  /\ last' = Quiet
  /\ UNCHANGED <<run, form, channel, timers, impl, userId, now, tasksRef, loading,
                 error, store, nextId, calls>>

NextConverge ==
  \/ SyncRef
  \/ SignIn
  \/ ChannelStatus("SUBSCRIBED")
  \/ channel = "joined" /\ \E nt \in NewTaskInputs : AddCall(nt)
  \/ channel = "joined" /\ \E id \in IdsOf(tasksRef) : \E u \in TitleUpdates : UpdateCall(id, u)
  \/ channel = "joined" /\ \E t \in Range(tasksRef) : ToggleCall(t)
  \/ channel = "joined" /\ \E id \in IdsOf(tasksRef) : DeleteCall(id)
  \/ channel = "joined" /\ RemoteWrite
  \/ \E i \in DOMAIN ops : \E r \in {"ok", "error", "nodata"} : StoreAnswer(i, r)
  \/ \E i \in DOMAIN ops : Settle(i)
  \/ \E ev \in feed : FeedTake(ev)

SpecConverge == Init /\ [][NextConverge]_vars

\* ----------------------------------------- filterCompleted on its own
\* the lists filterCompleted is called on: tasks in each status, with and
\* without a completion timestamp
MaxMixed == 3
MixedTasks ==
  {[InitialRow EXCEPT !.status = st, !.completed_at = at] :
     st \in {"todo", "inprogress", "done"}, at \in {Null, 0, 1}}
MixedLists == UNION {[1..n -> MixedTasks] : n \in 0..MaxMixed}

InitFilter ==
  /\ impl = "hook"
  /\ userId = NoUser
  /\ now = 0
  /\ tasks \in MixedLists
  /\ tasksRef = tasks
  /\ loading = TRUE
  /\ error = NoError
  /\ ops = <<>>
  /\ store = <<InitialRow>>
  /\ feed = {}
  /\ nextId = 2
  /\ calls = 0
  /\ last = Quiet
  /\ channel = "none"
  /\ timers = 0
  /\ form = NoForm
  /\ run = NoRun

\* filterCompleted is called on the list
FilterCompleted ==
  /\ ~run.filterRan
  /\ run' = [run EXCEPT !.filterRan = TRUE, !.filtered = filterCompleted(tasks)]
  /\ UNCHANGED <<form, syncVars>>

NextFilter == FilterCompleted

SpecFilter == InitFilter /\ [][NextFilter]_vars

\* ------------------------------------------------ the streak on display
\* The clock reading n stands for the instant n half days after
\* 2024-02-29T18:00:00Z, and a task's completed_at n for the ISO string of
\* that instant, as new Date().toISOString() writes it.
ClockDate(ms) ==
  [valid |-> TRUE,
   time |-> MakeDay(2024, 2, 29) * DayLength + 18 * Hour + ms * 12 * Hour]
toISOString(date) ==
  Stamp(toUtcDateStr(date), date.time % DayLength, 0)
Timestamp(ms) == toISOString(ClockDate(ms))

\* const streak = computeStreak(filterCompleted(tasks)), now being new Date()
ExposedStreak(list, date) ==
  computeStreak(MapSeq(filterCompleted(list),
                       LAMBDA c : Completion(Timestamp(c.completed_at))),
                date)

\* the rows the user may have in the store when the page opens: a task to
\* do, a task done at the clock's start, and with it a task that was
\* completed and then moved back to in progress
DoneRow == [InitialRow EXCEPT !.status = "done", !.completed_at = 0]
ReopenedRow ==
  [InitialRow EXCEPT !.id = PermId(2), !.status = "inprogress", !.completed_at = 0]
InitRender ==
  /\ impl \in {"hook", "dashboard"}
  /\ userId = NoUser
  /\ now = 0
  /\ tasks = <<>>
  /\ tasksRef = <<>>
  /\ loading = TRUE
  /\ error = NoError
  /\ ops = <<>>
  /\ store \in {<<InitialRow>>, <<DoneRow>>, <<InitialRow, ReopenedRow>>}
  /\ feed = {}
  /\ nextId = 3
  /\ calls = 0
  /\ last = Quiet
  /\ channel = "none"
  /\ timers = 0
  /\ form = NoForm
  /\ run = [NoRun EXCEPT !.now = ClockDate(0),
                         !.result = ExposedStreak(<<>>, ClockDate(0))]

\* the component renders: the streak is computed from the list with the
\* clock's reading, and the effect that follows the commit updates the ref
Render ==
  /\ tasksRef # tasks \/ run.now # ClockDate(now)
  /\ tasksRef' = tasks
  /\ run' = [run EXCEPT !.now = ClockDate(now),
                        !.result = ExposedStreak(tasks, ClockDate(now))]
  /\ last' = Quiet
  /\ UNCHANGED <<form, channel, timers, impl, userId, now, tasks, loading, error,
                 ops, store, feed, nextId, calls>>

NextRender ==
  \/ Tick
  \/ Render
  \/ SignIn
  \/ \E t \in Range(tasksRef) : ToggleCall(t)
  \/ \E i \in DOMAIN ops : \E r \in {"ok", "error"} : StoreAnswer(i, r)
  \/ \E i \in DOMAIN ops : Settle(i)

SpecRender == InitRender /\ [][NextRender]_vars

\* ------------------------------------------- subtractDays on its own
\* the date strings subtractDays is called on, from the end of 2023 to the
\* March of 2025, and the number of days to go back; with each, the run of
\* consecutive days that ends on the date, seen from its noon
MaxBack == 31
DateKeys == {DateFromDay(n) : n \in MakeDay(2023, 12, 25)..MakeDay(2025, 3, 5)}
RunEndingOn(dateStr, length) ==
  LET end == MakeDay(dateStr[1], dateStr[2], dateStr[3])
  IN OnDays((end - length + 1)..end)

InitDays ==
  /\ impl = "hook"
  /\ userId = NoUser
  /\ now = 0
  /\ tasks = <<>>
  /\ tasksRef = <<>>
  /\ loading = TRUE
  /\ error = NoError
  /\ ops = <<>>
  /\ store = <<InitialRow>>
  /\ feed = {}
  /\ nextId = 2
  /\ calls = 0
  /\ last = Quiet
  /\ channel = "none"
  /\ timers = 0
  /\ form = NoForm
  /\ \E dateStr \in DateKeys : \E days \in 0..MaxBack :
       run = [NoRun EXCEPT !.key = dateStr, !.back = days,
                           !.tasks = RunEndingOn(dateStr, days + 1),
                           !.now = NewDate(Stamp(dateStr, 12 * Hour, 0))]

\* subtractDays is called on the date string
SubtractDays ==
  /\ run.key # NoKey
  /\ run.moved = NoKey
  /\ run' = [run EXCEPT !.moved = subtractDays(run.key, run.back)]
  /\ UNCHANGED <<form, syncVars>>

NextDays ==
  \/ SubtractDays
  \/ RunStreak

SpecDays == InitDays /\ [][NextDays]_vars

\* ================================================================ claims
IsSettle(i, kind) == Settle(i) /\ ops[i].kind = kind

\* C1: when updateTask's store update fails and nothing else changed that
\* task between the call and the settling, the task is back to the value it
\* had in the list immediately before the call, and the other tasks are as
\* they were.
C1_FailedUpdateRestoresPreCallValue ==
  [][\A i \in DOMAIN ops :
       (IsSettle(i, "update") /\ Failed(ops[i]) /\ ops[i].was # NoTask
          /\ ops[i].quietTask)
       => /\ Some(tasks', ops[i].id)
          /\ \A t \in Range(Entries(tasks', ops[i].id)) : t = ops[i].was
          /\ Others(tasks', ops[i].id) = Others(tasks, ops[i].id)]_vars

\* C2: when deleteTask's store delete fails, the list again contains the
\* task with the fields it had in the list before the call, and (nothing
\* else having changed the list meanwhile) every other task it contained.
C2_FailedDeleteRestoresTask ==
  [][\A i \in DOMAIN ops :
       (IsSettle(i, "delete") /\ Failed(ops[i]) /\ ops[i].was # NoTask)
       => /\ ops[i].was \in Range(tasks')
          /\ ops[i].quietList => Range(tasks) \subseteq Range(tasks')]_vars

\* C3: when addTask's insert fails (error, or no row), the error signal is
\* non-null after the settling and (nothing else having changed the list
\* meanwhile) the list is what it was before the call: the list that
\* followed the prepended temporary entry.
C3_FailedAddRestoresListAndSetsError ==
  [][\A i \in DOMAIN ops :
       (IsSettle(i, "add") /\ Failed(ops[i]))
       => /\ error' # NoError
          /\ ops[i].quietList => tasks' = Tail(tasks)]_vars

\* C4: when addTask's insert succeeds and nothing else changed the list while
\* it was pending, the confirmed task stands where the temporary entry stood
\* (the head), no entry carries the temporary id, and the rest is unchanged.
C4_ConfirmedAddReplacesTemporaryOnly ==
  [][\A i \in DOMAIN ops :
       (IsSettle(i, "add") /\ ~Failed(ops[i]) /\ ops[i].quietList)
       => /\ tasks' = <<ops[i].data>> \o Tail(tasks)
          /\ ~Some(tasks', ops[i].id)]_vars

\* C5: delivering the same event twice in a row leaves the list as the first
\* delivery left it, whatever the event type and the list; no delivery raises
\* the number of entries with the event's id above one (or above what it was).
C5_AbsorbIdempotent ==
  /\ last.repeat => tasks = last.tasks
  /\ last.act = "feed" =>
       /\ Absorb(tasks, last.ev) = tasks
       /\ Count(tasks, last.ev.row.id) <= 1 \/
          Count(tasks, last.ev.row.id) <= Count(last.tasks, last.ev.row.id)

C5_Witness ==
  /\ last.repeat
  /\ last.ev.eventType = "INSERT"
  /\ Count(tasks, last.ev.row.id) = 1
  /\ Len(tasks) = MaxLen

\* C6: when the feed's insert event for a task this session is creating was
\* absorbed while the create was pending, the list holds exactly one entry
\* with the permanent id, and none with the temporary id, once the
\* confirmation is applied.
C6_RaceResolvesToOneEntry ==
  [][\A i \in DOMAIN ops :
       (IsSettle(i, "add") /\ ~Failed(ops[i]) /\ Some(tasks, ops[i].data.id))
       => /\ Count(tasks', ops[i].data.id) = 1
          /\ Count(tasks', ops[i].id) = 0]_vars

\* C7: while the store call of an addTask, updateTask or deleteTask is
\* pending (and no other step has changed the entries of that task), the
\* list shows the operation's effect: the temporary task is present, the
\* task carries the updated fields, the task is absent.
Visible(o) ==
  CASE o.kind = "add" ->
         \E t \in Range(Entries(tasks, o.id)) :
           \A f \in DOMAIN o.payload : t[f] = o.payload[f]
    [] o.kind = "update" ->
         /\ o.was # NoTask => Some(tasks, o.id)
         /\ \A t \in Range(Entries(tasks, o.id)) :
              \A f \in DOMAIN o.payload : t[f] = o.payload[f]
    [] o.kind = "delete" -> ~Some(tasks, o.id)
    [] OTHER -> TRUE

C7_OptimisticEffectVisibleWhilePending ==
  \A i \in DOMAIN ops : ops[i].quietTask => Visible(ops[i])

C7_Witness ==
  \E i, j, k \in DOMAIN ops :
    /\ ops[i].kind = "update" /\ ops[i].quietTask
    /\ ops[i].was # NoTask /\ Find(tasks, ops[i].id) # ops[i].was
    /\ ops[j].kind = "add" /\ ops[j].quietTask
    /\ ops[k].phase = "answered"

\* C8: toggleComplete(task) issues one update, for the task's id, whose
\* payload is exactly {status: todo, completed_at: null} when the task is
\* done and {status: done, completed_at: now} otherwise; in the list only
\* status and completed_at of that task change.
C8_TogglePayload ==
  [][\A task \in Range(tasksRef) :
       ToggleCall(task)
       => /\ Len(ops') = Len(ops) + 1
          /\ LET o == ops'[Len(ops')]
             IN /\ o.kind = "update" /\ o.id = task.id
                /\ DOMAIN o.payload = {"status", "completed_at"}
                /\ task.status = "done"
                     => o.payload.status = "todo" /\ o.payload.completed_at = Null
                /\ task.status # "done"
                     => o.payload.status = "done" /\ o.payload.completed_at = now
          /\ Len(tasks') = Len(tasks)
          /\ \A j \in DOMAIN tasks :
               /\ tasks[j].id # task.id => tasks'[j] = tasks[j]
               /\ \A f \in DOMAIN tasks[j] \ {"status", "completed_at"} :
                    tasks'[j][f] = tasks[j][f]]_vars

C8_Witness ==
  \E i \in DOMAIN ops :
    /\ ops[i].toggled # NoTask
    /\ ops[i].toggled.status = "done"
    /\ Some(tasks, ops[i].id)
    /\ Find(tasks, ops[i].id).status = "todo"

\* C9: through addTask, toggleComplete, title edits and their confirmations
\* and rollbacks, every task of the list has completed_at non-null exactly
\* when its status is done.
C9_CompletedAtIffDone ==
  \A t \in Range(tasks) : (t.completed_at # Null) <=> (t.status = "done")

C9_Witness ==
  /\ last = Quiet
  /\ \E t \in Range(tasks) : t.status = "done" /\ t.title = <<"b">>
  /\ \E t \in Range(tasks) : IsTemp(t.id)
  /\ \E i \in DOMAIN ops : ops[i].toggled # NoTask /\ ops[i].result = "error"

\* C10: when the store rejects an update or a delete, the error signal
\* carries the store's message once the operation has settled, in the hook
\* and in the dashboard page alike.
C10_RejectedWriteSetsError ==
  [][\A i \in DOMAIN ops :
       ((IsSettle(i, "update") \/ IsSettle(i, "delete")) /\ Failed(ops[i]))
       => error' = StoreMessage]_vars

\* C11: an addTask, updateTask, deleteTask or toggleComplete that was called
\* while the error signal was set (by an earlier failed operation) and whose
\* store call succeeds leaves the error signal null once it has settled.
C11_SuccessClearsError ==
  [][\A i \in DOMAIN ops :
       (Settle(i) /\ ops[i].kind \in {"add", "update", "delete"}
          /\ ~Failed(ops[i]) /\ ops[i].errorAtCall # NoError)
       => error' = NoError]_vars

\* C12: whenever the subscription has last reported CHANNEL_ERROR a poll timer
\* is alive, and as long as no fresh subscription is reported fetchTasks is
\* run again and again by it.
C12_PollsWhileFeedDown ==
  /\ [](channel = "errored" => timers > 0)
  /\ <>[](channel = "errored") => []<>(last.act = "poll")

C12_Witness ==
  /\ channel = "errored"
  /\ last.act = "poll"
  /\ \E i \in DOMAIN ops : ops[i].kind = "fetch" /\ ops[i].phase = "sent"
  /\ tasks # <<>>

\* C13: never more than one poll timer is alive, none is alive while the
\* subscription is joined, and none is alive once the subscription has been
\* torn down.
C13_OneUpdateSource ==
  /\ timers <= 1
  /\ channel = "joined" => timers = 0
  /\ channel = "removed" => timers = 0

\* C14: when a successful fetchTasks settles while an addTask, updateTask or
\* deleteTask is pending, the pending operation's effect, visible in the list
\* before, is visible after: the temporary task is present, the task carries
\* the updated fields, the task is absent.
C14_RefreshKeepsOptimisticEffects ==
  [][\A i \in DOMAIN ops :
       (IsSettle(i, "fetch") /\ ~Failed(ops[i]))
       => \A o \in Range(ops) :
            (o.kind \in {"add", "update", "delete"} /\ o.quietTask /\ Visible(o))
            => Visible(o)']_vars

C16_NoWriteByTemporaryId ==
  \A i \in DOMAIN ops :
    ops[i].kind \in {"update", "delete"} => ~IsTemp(ops[i].id)

C16_Witness ==
  /\ \E t \in Range(tasksRef) : IsTemp(t.id)
  /\ \E i \in DOMAIN ops : ops[i].kind = "add" /\ ops[i].phase = "sent"
  /\ \E i \in DOMAIN ops : ops[i].kind = "delete" /\ ops[i].phase = "sent"

\* C17: when updateTask or deleteTask is called for a task that has an
\* update or delete pending (and nothing else has changed that task since
\* the first call), the list then shows the first operation's effect followed
\* by the second's: the task as it was at the first call with the first and
\* then the second update merged in, or no such task once one of the two is
\* a delete; the other tasks are untouched.
C17_SameTaskEffectsInCallOrder ==
  [][\A i \in DOMAIN ops :
       LET first == ops[i]
           second == ops'[Len(ops')]
           afterFirst == IF first.kind = "update"
                         THEN Merge(first.was, first.payload) ELSE NoTask
       IN (/\ Len(ops') = Len(ops) + 1
           /\ first.kind \in {"update", "delete"}
           /\ second.kind \in {"update", "delete"}
           /\ second.id = first.id
           /\ first.was # NoTask
           /\ first.quietTask)
          => /\ IF second.kind = "delete" \/ afterFirst = NoTask
                THEN ~Some(tasks', first.id)
                ELSE Find(tasks', first.id) = Merge(afterFirst, second.payload)
             /\ Others(tasks', first.id) = Others(tasks, first.id)]_vars

C17_Witness ==
  \E i, j \in DOMAIN ops :
    /\ i < j
    /\ ops[i].id = ops[j].id
    /\ ops[i].phase = "sent" /\ ops[j].phase = "sent"
    /\ ops[i].kind = "update" /\ "title" \in DOMAIN ops[i].payload
    /\ ops[j].toggled # NoTask
    /\ ops[j].quietTask
    /\ Find(tasks, ops[i].id).title = <<"b">>
    /\ Find(tasks, ops[i].id).status = "done"
    /\ Find(tasksRef, ops[i].id).title = <<"a">>

\* C18: whenever an addTask, updateTask or deleteTask is pending, eventually
\* none is: each has been confirmed or rolled back, whether or not the store
\* answers.
Pending ==
  \E i \in DOMAIN ops : ops[i].kind \in {"add", "update", "delete"}

C18_EveryOperationSettles == Pending ~> ~Pending

\* C19: computeStreak of an empty collection is 0, whatever the reference
\* instant.
C19_EmptyCollectionIsZero ==
  (run.result # NotRun /\ run.tasks = <<>>) => run.result = Returned(0)

C19_Witness ==
  /\ run.tasks = <<>>
  /\ run.result = Returned(0)
  /\ toUtcDateStr(run.now) = <<2025, 1, 1>>

\* C20: when a completion is added whose UTC day is the UTC day of a
\* completion already in the collection, at whatever time of that day,
\* computeStreak returns what it returned before.
C20_SameDayCompletionsDoNotCount ==
  LET added == run.tasks[Len(run.tasks)].completed_at
  IN (/\ run.was # NotRun
      /\ added.ok
      /\ \E i \in DOMAIN run.before :
           /\ run.before[i].completed_at.ok
           /\ NewDate(run.before[i].completed_at).time \div DayLength
                = NewDate(added).time \div DayLength)
     => run.result = run.was

C20_Witness ==
  /\ run.was = Returned(1)
  /\ run.result = Returned(1)
  /\ Len(run.before) = 1
  /\ run.before[1].completed_at = Stamp(<<2024, 2, 29>>, 10 * Hour, 0)
  /\ run.tasks[2].completed_at = Stamp(<<2024, 3, 1>>, Hour, 2 * Hour)

\* the UTC day number of a well-formed timestamp and of the reference instant
DayOf(stamp) == NewDate(stamp).time \div DayLength
Today == run.now.time \div DayLength
Added == run.tasks[Len(run.tasks)].completed_at

\* C21: when a completion is added whose UTC day is strictly after the UTC
\* day of now, computeStreak returns what it returned before, 0 included.
C21_FutureCompletionsIgnored ==
  (run.was # NotRun /\ Added.ok /\ DayOf(Added) > Today)
    => run.result = run.was

C21_Witness ==
  /\ run.was = Returned(1)
  /\ run.result = Returned(1)
  /\ Today = MakeDay(2024, 3, 1)
  /\ Len(run.before) = 1
  /\ run.before[1].completed_at = Stamp(<<2024, 3, 1>>, 10 * Hour, 0)
  /\ Added = Stamp(<<2024, 3, 2>>, 10 * Hour, 0)

\* the collection is well formed, and the UTC day numbers of its completions
WellFormed == \A i \in DOMAIN run.tasks : run.tasks[i].completed_at.ok
Days == {DayOf(run.tasks[i].completed_at) : i \in DOMAIN run.tasks}

\* C22: when the completions cover exactly the n >= 1 consecutive UTC days
\* that end on the UTC day of now, computeStreak returns n.
C22_RunEndingTodayCountsItsDays ==
  (/\ run.result # NotRun
   /\ WellFormed
   /\ Days # {}
   /\ Days = (Today - Cardinality(Days) + 1)..Today)
    => run.result = Returned(Cardinality(Days))

C22_Witness ==
  /\ run.result = Returned(7)
  /\ WellFormed
  /\ Today = MakeDay(2024, 3, 2)
  /\ Days = MakeDay(2024, 2, 25)..MakeDay(2024, 3, 2)

\* C23: when the completions cover exactly the n >= 1 consecutive UTC days
\* that end on the day before the UTC day of now, and so none is on now's
\* day, computeStreak returns n.
C23_RunEndingYesterdayStillCounts ==
  (/\ run.result # NotRun
   /\ WellFormed
   /\ Days # {}
   /\ Days = (Today - Cardinality(Days))..(Today - 1))
    => run.result = Returned(Cardinality(Days))

C23_Witness ==
  /\ run.result = Returned(6)
  /\ WellFormed
  /\ Today = MakeDay(2025, 1, 1)
  /\ Days = MakeDay(2024, 12, 26)..MakeDay(2024, 12, 31)

\* the day computeStreak starts counting from: today when it has a
\* completion, else yesterday
Anchor == IF Today \in Days THEN Today ELSE Today - 1

\* C24: when the anchor day has a completion and day anchor - k is the first
\* day without one going backward, computeStreak returns k, whatever
\* completions lie on days before anchor - k.
C24_GapCutsTheCount ==
  (run.result # NotRun /\ WellFormed /\ Anchor \in Days)
    => \A k \in 1..Cardinality(Days) :
         ((\A j \in 0..(k - 1) : Anchor - j \in Days) /\ Anchor - k \notin Days)
           => run.result = Returned(k)

C24_Witness ==
  /\ run.result = Returned(2)
  /\ WellFormed
  /\ Today = MakeDay(2024, 3, 2)
  /\ Days = {MakeDay(2024, 3, 2), MakeDay(2024, 3, 1),
             MakeDay(2024, 2, 28), MakeDay(2024, 2, 27)}

\* C25: when no completion is on the UTC day of now or on the day before
\* it, computeStreak returns 0, however long the runs of earlier days are.
C25_TwoDayGapIsZero ==
  (/\ run.result # NotRun
   /\ WellFormed
   /\ Today \notin Days
   /\ Today - 1 \notin Days)
    => run.result = Returned(0)

C25_Witness ==
  /\ run.result = Returned(0)
  /\ WellFormed
  /\ Today = MakeDay(2025, 1, 1)
  /\ Days = MakeDay(2024, 12, 26)..MakeDay(2024, 12, 30)

\* the calendar day before a date, and the day n days before it, by the
\* calendar's own rule: the day before the first of a month is the last day
\* of the month before, the day before 1 January is 31 December
DayBefore(dateStr) ==
  IF dateStr[3] > 1 THEN <<dateStr[1], dateStr[2], dateStr[3] - 1>>
  ELSE IF dateStr[2] > 1
  THEN <<dateStr[1], dateStr[2] - 1, DaysInMonth(dateStr[1], dateStr[2] - 1)>>
  ELSE <<dateStr[1] - 1, 12, 31>>
RECURSIVE DaysBefore(_, _)
DaysBefore(dateStr, n) ==
  IF n = 0 THEN dateStr ELSE DaysBefore(DayBefore(dateStr), n - 1)

\* C26: subtractDays(d, n) is the calendar day n days before d, d itself for
\* n = 0, across the ends of months, leap days and the ends of years; and a
\* run of n + 1 consecutive days ending on d, seen from d, is a streak of
\* n + 1 whatever boundaries it spans.
C26_SubtractDaysIsCalendarArithmetic ==
  /\ run.moved # NoKey => run.moved = DaysBefore(run.key, run.back)
  /\ (run.key # NoKey /\ run.result # NotRun)
       => run.result = Returned(run.back + 1)

C26_Witness ==
  /\ run.key = <<2025, 1, 1>>
  /\ run.back = 31
  /\ run.moved = <<2024, 12, 1>>
  /\ run.result = Returned(32)

\* the positions of a list whose task is done and has a completion timestamp
Completed(list) ==
  {i \in DOMAIN list : list[i].status = "done" /\ list[i].completed_at # Null}

\* C27: filterCompleted returns one entry for each task of its input that is
\* done and has a completion timestamp, in the input's order, each entry
\* holding that timestamp and nothing else; a done task without a timestamp
\* and a task with a timestamp that is not done have no entry.
C27_FilterKeepsDoneWithTimestamp ==
  run.filterRan =>
    /\ Len(run.filtered) = Cardinality(Completed(tasks))
    /\ \E at \in [DOMAIN run.filtered -> DOMAIN tasks] :
         /\ {at[k] : k \in DOMAIN at} = Completed(tasks)
         /\ \A j, k \in DOMAIN at : j < k => at[j] < at[k]
         /\ \A k \in DOMAIN at :
              run.filtered[k] = [completed_at |-> tasks[at[k]].completed_at]

C27_Witness ==
  /\ run.filterRan
  /\ Len(tasks) = 3
  /\ tasks[1].status = "inprogress" /\ tasks[1].completed_at = 1
  /\ tasks[2].status = "done" /\ tasks[2].completed_at = Null
  /\ tasks[3].status = "done" /\ tasks[3].completed_at = 0
  /\ run.filtered = <<[completed_at |-> 0]>>

\* C28: computeStreak of a collection holding a completion whose timestamp
\* cannot be parsed raises an error, wherever in the collection it is and
\* whatever the other completions are.
C28_UnparseableInstantRaises ==
  (run.result # NotRun /\ ~WellFormed) => run.result = Thrown

C28_Witness ==
  /\ run.result = Thrown
  /\ Len(run.tasks) = 2
  /\ run.tasks[1].completed_at = Stamp(<<2024, 3, 1>>, 10 * Hour, 0)
  /\ run.tasks[2].completed_at = NotAStamp
  /\ Today = MakeDay(2024, 3, 1)

\* the completions of the tasks of a list that are done and have a timestamp
DoneCompletions(list) ==
  LET done == SelectSeq(list, LAMBDA t : t.status = "done" /\ t.completed_at # Null)
  IN [i \in DOMAIN done |-> Completion(Timestamp(done[i].completed_at))]

\* C29: the streak on display is computeStreak of the tasks of the rendered
\* list that are done and have a completion timestamp, optimistic changes
\* included, at the instant of the render; a task of the list that is not
\* done adds nothing to it, and a task is not done in the list once it is
\* toggled out of done and once its toggle into done is rolled back.
C29_StreakIsOfTheDoneTasks ==
  /\ [](/\ run.result = computeStreak(DoneCompletions(tasksRef), run.now)
        /\ \A t \in Range(tasksRef) :
             t.status # "done"
               => run.result
                    = computeStreak(DoneCompletions(Others(tasksRef, t.id)), run.now))
  /\ [][/\ \A t \in Range(tasksRef) :
            (ToggleCall(t) /\ t.status = "done")
              => \A u \in Range(Entries(tasks', t.id)) : u.status # "done"
        /\ \A i \in DOMAIN ops :
            (/\ IsSettle(i, "update")
             /\ Failed(ops[i])
             /\ ops[i].toggled # NoTask
             /\ ops[i].toggled.status # "done")
              => \A u \in Range(Entries(tasks', ops[i].id)) : u.status # "done"]_vars

\* a task done in the store is toggled out of done: the update is still in
\* flight and the streak on display has dropped to 0
C29_Witness ==
  /\ store = <<DoneRow>>
  /\ tasksRef = <<[DoneRow EXCEPT !.status = "todo", !.completed_at = Null]>>
  /\ \E i \in DOMAIN ops : ops[i].kind = "update" /\ ops[i].phase = "sent"
  /\ run.result = Returned(0)

\* C30: when a completion on the UTC day of now is added to a well-formed
\* collection, computeStreak returns at least 1 and at least what it
\* returned before.
C30_CompletingTodayNeverLowers ==
  (/\ run.was # NotRun
   /\ WellFormed
   /\ DayOf(Added) = Today)
    => /\ ~run.result.threw
       /\ run.result.value >= 1
       /\ run.result.value >= run.was.value

C30_Witness ==
  /\ Today = MakeDay(2024, 3, 2)
  /\ {DayOf(run.before[i].completed_at) : i \in DOMAIN run.before}
       = MakeDay(2024, 2, 25)..MakeDay(2024, 3, 1)
  /\ Added = Stamp(<<2024, 3, 2>>, 10 * Hour, 0)
  /\ run.was = Returned(6)
  /\ run.result = Returned(7)

\* C31: the snapshot that a failed updateTask or deleteTask restores is the
\* task's value in the list at the moment of the call, also when an earlier
\* call on the same task has just applied its optimistic mutation; so when
\* the second call fails and nothing else touched the task, the task is
\* back to what the first call made of it.
C31_SnapshotIsValueAtCall ==
  /\ [](\A i \in DOMAIN ops :
          (ops[i].kind \in {"update", "delete"} /\ ops[i].was # NoTask)
            => ops[i].previous = ops[i].was)
  /\ [][\A i \in DOMAIN ops :
          (/\ Settle(i)
           /\ ops[i].kind \in {"update", "delete"}
           /\ Failed(ops[i])
           /\ ops[i].was # NoTask
           /\ ops[i].quietTask)
            => \A t \in Range(Entries(tasks', ops[i].id)) : t = ops[i].was]_vars

\* C32: when two events that concern different task ids are absorbed one
\* after the other, the list holds the same tasks, field for field, as if
\* they had been absorbed in the other order.
C32_DifferentIdsCommute ==
  [][(/\ last.act = "feed"
      /\ last'.act = "feed"
      /\ last.ev.row.id # last'.ev.row.id)
       => Range(tasks')
            = Range(Absorb(Absorb(last.tasks, last'.ev), last.ev))]_vars

\* an insert and then a delete for another id have been absorbed
C32_Witness ==
  /\ last.act = "feed"
  /\ last.ev = Event("DELETE", InitialRow)
  /\ Len(last.tasks) = MaxLen + 1
  /\ last.tasks[1] = [InitialRow EXCEPT !.id = PermId(2)]
  /\ tasks = <<[InitialRow EXCEPT !.id = PermId(2)]>>

\* C33: absorbing an update or a delete event whose id no task of the list
\* has leaves the list as it was, and absorbing any event leaves the tasks
\* with another id as they were, in their order.
C33_AbsorbTouchesOnlyItsTask ==
  last.act = "feed" =>
    /\ (last.ev.eventType \in {"UPDATE", "DELETE"} /\ ~Some(last.tasks, last.ev.row.id))
         => tasks = last.tasks
    /\ Others(tasks, last.ev.row.id) = Others(last.tasks, last.ev.row.id)

C33_Witness ==
  /\ last.act = "feed"
  /\ last.ev = Event("UPDATE", [InitialRow EXCEPT !.id = PermId(2)])
  /\ last.tasks = <<InitialRow>>
  /\ tasks = last.tasks

\* C34: no submit is accepted while one is in flight, and when the insert of
\* a submitted task fails the form keeps the title that was entered and
\* shows a failure message; the title is cleared only when the add
\* succeeded.
C34_FormKeepsFieldsOnFailure ==
  /\ [][form.submitting => \A text \in FormTexts : ~SubmitAdd(text)]_vars
  /\ [][\A i \in DOMAIN ops :
          (IsSettle(i, "add") /\ form.submitting)
            => IF Failed(ops[i])
               THEN form'.title = form.title /\ form'.validationError # ""
               ELSE form'.title = <<>> /\ form'.validationError = ""]_vars

\* C35: in every reachable state no two entries of the list have the same
\* id.
C35_IdsAreUnique == \A id \in IdsOf(tasks) : Count(tasks, id) = 1

\* C36: two addTask calls whose inserts are pending at the same time carry
\* different temporary ids, so settling one of them leaves the other's
\* optimistic entry in the list.
C36_TemporaryIdsDiffer ==
  /\ [](\A i, j \in DOMAIN ops :
          (i # j /\ ops[i].kind = "add" /\ ops[j].kind = "add")
            => ops[i].id # ops[j].id)
  /\ [][\A i, j \in DOMAIN ops :
          (/\ i # j
           /\ IsSettle(i, "add")
           /\ ops[j].kind = "add"
           /\ Some(tasks, ops[j].id))
            => Some(tasks', ops[j].id)]_vars

\* C37: once every operation has settled, none of them having failed, and
\* every event the store produced has been absorbed, the list holds the
\* store's tasks of the user, field for field.
C37_ListConvergesToStore ==
  (/\ userId # NoUser
   /\ ops = <<>>
   /\ feed = {}
   /\ error = NoError)
    => Range(tasks) = Range(store)

\* C38: when the list fetch of a signed-in user settles, with rows or with
\* an error, the task-loading flag is false from then on.
C38_LoadingEndsWhenFetchSettles ==
  [][\A i \in DOMAIN ops : IsSettle(i, "fetch") => ~loading']_vars

\* C39: for a well-formed collection computeStreak returns a number from 0
\* up to the number of distinct UTC days, not later than the UTC day of now,
\* that carry a completion.
C39_StreakWithinDaysCompleted ==
  (run.result # NotRun /\ WellFormed)
    => /\ ~run.result.threw
       /\ run.result.value >= 0
       /\ run.result.value <= Cardinality({d \in Days : d <= Today})

C39_Witness ==
  /\ run.result = Returned(2)
  /\ WellFormed
  /\ Today = MakeDay(2024, 3, 1)
  /\ Days = {MakeDay(2024, 2, 29), MakeDay(2024, 3, 1), MakeDay(2024, 3, 2)}
  /\ Len(run.tasks) = 3

\* C40: a call of computeStreak on a finite collection comes back; its
\* backward walk from the anchor stops at the first day that is not in the
\* set of completed days, having evaluated the loop condition at most
\* (number of distinct days in the set) + 1 times, and the call returns the
\* number of days walked over, which is what computeStreak yields.
C40_WalkTerminates ==
  /\ (run.at \in {"in", "loop"}) ~> (run.at = "back")
  /\ [](WellFormed => run.tests <= Cardinality(Days) + 1)
  /\ [](run.at = "back" =>
          /\ run.result = computeStreak(run.tasks, run.now)
          /\ run.anchor # NoKey =>
               LET stop == MakeDay(run.cursor[1], run.cursor[2], run.cursor[3])
                   from == MakeDay(run.anchor[1], run.anchor[2], run.anchor[3])
               IN /\ stop \notin Days
                  /\ \A d \in (stop + 1)..from : d \in Days
                  /\ run.tests = from - stop + 1
                  /\ run.result = Returned(from - stop))

C40_Witness ==
  /\ run.at = "back"
  /\ WellFormed
  /\ Cardinality(Days) = MaxRun
  /\ run.tests = MaxRun + 1
  /\ run.result = Returned(MaxRun)

====
